---- MODULE Spec2Model ----
(***************************************************************************)
(* AES-256-GCM-SIV native boundary: the OpenSSL-backed implementation      *)
(* (src/Native/aesgcmsiv.cpp) and the mock implementation                  *)
(* (src/Native/mock_aesgcmsiv.cpp) behind the interface of aesgcmsiv.h.    *)
(*                                                                         *)
(* One behaviour is one caller session: a call of aesgcmsiv_encrypt or     *)
(* aesgcmsiv_decrypt on one backend, and, for the mock, optionally a       *)
(* single-bit change of what the caller carries from a successful encrypt  *)
(* to the following decrypt.  The OpenSSL backend is modelled one EVP call *)
(* at a time; every EVP call may succeed or fail.                          *)
(***************************************************************************)
EXTENDS Integers, Sequences, FiniteSets, TLC

VARIABLES
    backend,      \* "none", "openssl" or "mock": which library the call runs in
    op,           \* "none", "encrypt" or "decrypt"
    pc,           \* "idle", the EVP call about to be made, or "done"
    args,         \* the arguments of the current call
    ret,          \* the value returned ("none" until the call returns)
    vres,         \* the outcome of parameter validation ("none" before the call)
    calls,        \* the EVP calls made so far by the current call, in order
    failed,       \* the EVP call that failed, or "none"
    live,         \* engine handles held and not yet freed
    acquired,     \* per handle, how many times it was handed out
    released,     \* per handle, how many times it was freed
    uaf,          \* TRUE once a freed or never-acquired handle was passed to EVP
    engine_len,   \* the int length handed to EVP_*Update for the data, or "none"
    outs,         \* what the call wrote to the caller's output buffers
    compared,     \* tag bytes compared by the mock's verification loop
    carry,        \* what the caller carries from a mock encrypt to the decrypt
    tampered      \* which carried field had a bit flipped, or "none"

vars == <<backend, op, pc, args, ret, vres, calls, failed, live, acquired,
          released, uaf, engine_len, outs, compared, carry, tampered>>

---------------------------------------------------------------------------
(* aesgcmsiv.h *)

AESGCMSIV_SUCCESS == 0
AESGCMSIV_ERROR_INVALID_KEY == -1
AESGCMSIV_ERROR_INVALID_NONCE == -2
AESGCMSIV_ERROR_INVALID_INPUT == -3
AESGCMSIV_ERROR_INVALID_TAG == -4
AESGCMSIV_ERROR_DECRYPT_FAILED == -5
AESGCMSIV_ERROR_INTERNAL == -6

AESGCMSIV_KEY_SIZE == 32
AESGCMSIV_NONCE_SIZE == 12
AESGCMSIV_TAG_SIZE == 16

---------------------------------------------------------------------------
(* Bounds of the inputs drawn by the model. *)

\* key and nonce contents are drawn from seeds 0..MaxSeed
MaxSeed == 1
\* plaintexts have 0..MaxLen bytes
MaxLen == 2
\* AAD buffers have 0..MaxAad bytes
MaxAad == 1
\* data bytes are drawn from the multiples of 85 with factor 0..MaxByte
MaxByte == 1
\* bits 32 and up of a size_t length are drawn from 0..MaxHi
MaxHi == 1
\* bits 0..30 of a length passed to the OpenSSL backend are drawn from 0..MaxLow
MaxLow == 1

---------------------------------------------------------------------------
(* C types *)

\* a null pointer
NULL == [null |-> TRUE, bytes |-> <<>>]

\* a pointer to a buffer holding the bytes b
Ptr(b) == [null |-> FALSE, bytes |-> b]

\* a pointer to a buffer whose content the model does not read: an output
\* buffer before the call, or any buffer handed to OpenSSL
BUF == Ptr(<<>>)

\* A size_t value hi * 2^32 + b31 * 2^31 + lo, with lo < 2^31.
size_t(hi, b31, lo) == [hi |-> hi, b31 |-> b31, lo |-> lo]

\* the size_t value of a small non-negative int
SZ(n) == size_t(0, 0, n)

\* static_cast<int>(len) of a size_t: the low 32 bits, read as two's complement
static_cast_int(len) ==
    IF len.b31 = 1 THEN (len.lo - 2147483647) - 1 ELSE len.lo

RECURSIVE XorBits(_, _, _)
XorBits(a, b, n) ==
    IF n = 0 THEN 0
    ELSE (((a % 2) + (b % 2)) % 2) + 2 * XorBits(a \div 2, b \div 2, n - 1)

\* a ^ b on uint8_t
Xor8(a, b) == XorBits(a, b, 8)

RECURSIVE Pow2(_)
Pow2(k) == IF k = 0 THEN 1 ELSE 2 * Pow2(k - 1)

\* the byte x with bit k flipped
FlipBit(x, k) == Xor8(x, Pow2(k))

\* the buffer s with bit k of byte i (1-based) flipped
FlipAt(s, i, k) == [s EXCEPT ![i] = FlipBit(s[i], k)]

Min(S) == CHOOSE x \in S : \A y \in S : x <= y

---------------------------------------------------------------------------
(* Parameter validation *)

\* Faulty variant of validate_encrypt_params: the nonce is checked before
\* the key.
validate_encrypt_params_nonce_first(a) ==
    IF a.nonce = NULL \/ a.nonce_len # SZ(AESGCMSIV_NONCE_SIZE)
    THEN AESGCMSIV_ERROR_INVALID_NONCE
    ELSE IF a.key = NULL \/ a.key_len # SZ(AESGCMSIV_KEY_SIZE)
    THEN AESGCMSIV_ERROR_INVALID_KEY
    ELSE IF a.plaintext = NULL \/ a.ciphertext_out = NULL \/ a.tag_out = NULL
    THEN AESGCMSIV_ERROR_INVALID_INPUT
    ELSE AESGCMSIV_SUCCESS

\* aesgcmsiv.cpp, validate_encrypt_params
validate_encrypt_params(a) ==
    IF a.key = NULL \/ a.key_len # SZ(AESGCMSIV_KEY_SIZE)
    THEN AESGCMSIV_ERROR_INVALID_KEY
    ELSE IF a.nonce = NULL \/ a.nonce_len # SZ(AESGCMSIV_NONCE_SIZE)
    THEN AESGCMSIV_ERROR_INVALID_NONCE
    ELSE IF a.plaintext = NULL \/ a.ciphertext_out = NULL \/ a.tag_out = NULL
    THEN AESGCMSIV_ERROR_INVALID_INPUT
    ELSE AESGCMSIV_SUCCESS

\* aesgcmsiv.cpp, validate_decrypt_params
validate_decrypt_params(a) ==
    IF a.key = NULL \/ a.key_len # SZ(AESGCMSIV_KEY_SIZE)
    THEN AESGCMSIV_ERROR_INVALID_KEY
    ELSE IF a.nonce = NULL \/ a.nonce_len # SZ(AESGCMSIV_NONCE_SIZE)
    THEN AESGCMSIV_ERROR_INVALID_NONCE
    ELSE IF a.ciphertext = NULL \/ a.tag = NULL \/ a.plaintext_out = NULL
    THEN AESGCMSIV_ERROR_INVALID_INPUT
    ELSE AESGCMSIV_SUCCESS

\* mock_aesgcmsiv.cpp, the checks that open aesgcmsiv_encrypt
mock_validate_encrypt(a) ==
    IF a.key = NULL \/ a.key_len # SZ(AESGCMSIV_KEY_SIZE)
    THEN AESGCMSIV_ERROR_INVALID_KEY
    ELSE IF a.nonce = NULL \/ a.nonce_len # SZ(AESGCMSIV_NONCE_SIZE)
    THEN AESGCMSIV_ERROR_INVALID_NONCE
    ELSE IF a.plaintext = NULL \/ a.ciphertext_out = NULL \/ a.tag_out = NULL
    THEN AESGCMSIV_ERROR_INVALID_INPUT
    ELSE IF a.aad # NULL /\ a.aad_len = SZ(0)
    THEN AESGCMSIV_ERROR_INVALID_INPUT
    ELSE AESGCMSIV_SUCCESS

\* mock_aesgcmsiv.cpp, the checks that open aesgcmsiv_decrypt
mock_validate_decrypt(a) ==
    IF a.key = NULL \/ a.key_len # SZ(AESGCMSIV_KEY_SIZE)
    THEN AESGCMSIV_ERROR_INVALID_KEY
    ELSE IF a.nonce = NULL \/ a.nonce_len # SZ(AESGCMSIV_NONCE_SIZE)
    THEN AESGCMSIV_ERROR_INVALID_NONCE
    ELSE IF a.ciphertext = NULL \/ a.tag = NULL \/ a.plaintext_out = NULL
    THEN AESGCMSIV_ERROR_INVALID_INPUT
    ELSE IF a.aad # NULL /\ a.aad_len = SZ(0)
    THEN AESGCMSIV_ERROR_INVALID_INPUT
    ELSE AESGCMSIV_SUCCESS

---------------------------------------------------------------------------
(* The inputs a caller may pass *)

KeyOf(s) == [i \in 1..AESGCMSIV_KEY_SIZE |-> (s * (i + 6)) % 256]
NonceOf(s) == [i \in 1..AESGCMSIV_NONCE_SIZE |-> (s * (3 * i + 1)) % 256]
TagOf(t) == [i \in 1..AESGCMSIV_TAG_SIZE |-> t]

ByteVals == {(85 * b) % 256 : b \in 0..MaxByte}
BytesUpTo(n) == UNION {[1..k -> ByteVals] : k \in 0..n}

KeyPtrs == {NULL} \cup {Ptr(KeyOf(s)) : s \in 0..MaxSeed}
NoncePtrs == {NULL} \cup {Ptr(NonceOf(s)) : s \in 0..MaxSeed}
DataPtrs == {NULL} \cup {Ptr(b) : b \in BytesUpTo(MaxLen)}
AadPtrs == {NULL} \cup {Ptr(b) : b \in BytesUpTo(MaxAad)}
TagPtrs == {NULL} \cup {Ptr(TagOf(t)) : t \in ByteVals}
OutPtrs == {NULL, BUF}

KeyLens ==
    {SZ(AESGCMSIV_KEY_SIZE), SZ(AESGCMSIV_TAG_SIZE),
     size_t(MaxHi, 0, AESGCMSIV_KEY_SIZE)}
NonceLens ==
    {SZ(AESGCMSIV_NONCE_SIZE), SZ(AESGCMSIV_TAG_SIZE),
     size_t(MaxHi, 0, AESGCMSIV_NONCE_SIZE)}

\* lengths over the whole range of size_t, for buffers the model does not read
DataLens == {size_t(h, b, l) : h \in 0..MaxHi, b \in 0..1, l \in 0..MaxLow}
AadLens == {SZ(n) : n \in 0..MaxAad} \cup {size_t(MaxHi, 0, 0)}

\* the length passed with a buffer the mock reads: the buffer's own length;
\* with a null pointer any length may be passed
LensFor(p) == IF p = NULL THEN {SZ(0), SZ(1)} ELSE {SZ(Len(p.bytes))}

OpensslEncryptArgs ==
    [key : {NULL, BUF}, key_len : KeyLens,
     nonce : {NULL, BUF}, nonce_len : NonceLens,
     plaintext : {NULL, BUF}, plaintext_len : DataLens,
     aad : {NULL, BUF}, aad_len : AadLens,
     ciphertext_out : OutPtrs, tag_out : OutPtrs]

OpensslDecryptArgs ==
    [key : {NULL, BUF}, key_len : KeyLens,
     nonce : {NULL, BUF}, nonce_len : NonceLens,
     ciphertext : {NULL, BUF}, ciphertext_len : DataLens,
     aad : {NULL, BUF}, aad_len : AadLens,
     tag : {NULL, BUF}, plaintext_out : OutPtrs]

Handles == {"ctx", "cipher"}

NoArgs == [key |-> NULL]
NoOuts == [ciphertext_out |-> <<>>, tag_out |-> <<>>, plaintext_out |-> <<>>]
NoCarry == [valid |-> FALSE]

Init ==
    /\ backend = "none"
    /\ op = "none"
    /\ pc = "idle"
    /\ args = NoArgs
    /\ ret = "none"
    /\ vres = "none"
    /\ calls = <<>>
    /\ failed = "none"
    /\ live = {}
    /\ acquired = [h \in Handles |-> 0]
    /\ released = [h \in Handles |-> 0]
    /\ uaf = FALSE
    /\ engine_len = "none"
    /\ outs = NoOuts
    /\ compared = 0
    /\ carry = NoCarry
    /\ tampered = "none"

---------------------------------------------------------------------------
(* aesgcmsiv.cpp: the OpenSSL backend, one EVP call per action *)

Bump(f, S) == [h \in Handles |-> IF h \in S THEN f[h] + 1 ELSE f[h]]

\* EVP_CIPHER_CTX_free / EVP_CIPHER_free of the handles in S
Free(S) ==
    /\ live' = live \ S
    /\ released' = Bump(released, S)

\* `if (aad && aad_len > 0)`
AadProvided(a) == a.aad # NULL /\ a.aad_len # SZ(0)

\* One EVP call `step` that is passed the handles `uses`.  When it succeeds it
\* hands out the handles `acq`, the handles `relOk` are freed after it and the
\* function goes on to `next` (returning AESGCMSIV_SUCCESS when there is
\* nothing left to do); when it fails the handles `relFail` are freed and the
\* function returns `code`.
EvpCall(step, uses, ok, acq, relOk, next, relFail, code) ==
    /\ calls' = Append(calls, step)
    /\ uaf' = (uaf \/ ~(uses \subseteq live))
    /\ IF ok
       THEN /\ live' = (live \cup acq) \ relOk
            /\ acquired' = Bump(acquired, acq)
            /\ released' = Bump(released, relOk)
            /\ pc' = next
            /\ ret' = IF next = "done" THEN AESGCMSIV_SUCCESS ELSE ret
            /\ failed' = failed
       ELSE /\ Free(relFail)
            /\ acquired' = acquired
            /\ pc' = "done"
            /\ ret' = code
            /\ failed' = step
    /\ UNCHANGED <<backend, op, args, vres, outs, compared, carry, tampered>>

\* aesgcmsiv_encrypt, entry: validate_encrypt_params and the early return
encrypt_call ==
    /\ pc = "idle"
    /\ \E a \in OpensslEncryptArgs :
         /\ args' = a
         /\ vres' = validate_encrypt_params(a)
         /\ IF validate_encrypt_params(a) # AESGCMSIV_SUCCESS
            THEN pc' = "done" /\ ret' = validate_encrypt_params(a)
            ELSE pc' = "ctx_new" /\ ret' = ret
    /\ backend' = "openssl"
    /\ op' = "encrypt"
    /\ UNCHANGED <<calls, failed, live, acquired, released, uaf, engine_len,
                   outs, compared, carry, tampered>>

\* EVP_CIPHER_CTX_new
encrypt_ctx_new ==
    /\ backend = "openssl" /\ op = "encrypt" /\ pc = "ctx_new"
    /\ \E ok \in BOOLEAN :
         EvpCall("ctx_new", {}, ok, {"ctx"}, {}, "fetch",
                 {}, AESGCMSIV_ERROR_INTERNAL)
    /\ UNCHANGED engine_len

\* EVP_CIPHER_fetch(nullptr, "AES-256-GCM-SIV", nullptr)
encrypt_fetch ==
    /\ backend = "openssl" /\ op = "encrypt" /\ pc = "fetch"
    /\ \E ok \in BOOLEAN :
         EvpCall("fetch", {}, ok, {"cipher"}, {}, "init",
                 {"ctx"}, AESGCMSIV_ERROR_INTERNAL)
    /\ UNCHANGED engine_len

\* Faulty variant of encrypt_init: the error path frees the context but
\* not the fetched cipher.
encrypt_init_leak ==
    /\ backend = "openssl" /\ op = "encrypt" /\ pc = "init"
    /\ \E ok \in BOOLEAN :
         EvpCall("init", {"ctx", "cipher"}, ok, {}, {"cipher"},
                 IF AadProvided(args) THEN "aad" ELSE "update",
                 {"ctx"}, AESGCMSIV_ERROR_INTERNAL)
    /\ UNCHANGED engine_len

\* EVP_EncryptInit_ex2, then EVP_CIPHER_free(cipher)
encrypt_init ==
    /\ backend = "openssl" /\ op = "encrypt" /\ pc = "init"
    /\ \E ok \in BOOLEAN :
         EvpCall("init", {"ctx", "cipher"}, ok, {}, {"cipher"},
                 IF AadProvided(args) THEN "aad" ELSE "update",
                 {"cipher", "ctx"}, AESGCMSIV_ERROR_INTERNAL)
    /\ UNCHANGED engine_len

\* EVP_EncryptUpdate(ctx, nullptr, &out_len, aad, static_cast<int>(aad_len))
encrypt_aad ==
    /\ backend = "openssl" /\ op = "encrypt" /\ pc = "aad"
    /\ \E ok \in BOOLEAN :
         EvpCall("aad", {"ctx"}, ok, {}, {}, "update",
                 {"ctx"}, AESGCMSIV_ERROR_INTERNAL)
    /\ UNCHANGED engine_len

\* Faulty variant of encrypt_update: a failed EVP_EncryptUpdate is tried
\* once more before the function gives up.
encrypt_update_retry ==
    /\ backend = "openssl" /\ op = "encrypt" /\ pc = "update"
    /\ \E ok \in BOOLEAN :
         IF ~ok /\ "update" \notin {calls[i] : i \in 1..Len(calls)}
         THEN /\ calls' = Append(calls, "update")
              /\ UNCHANGED <<backend, op, pc, args, ret, vres, failed, live,
                             acquired, released, uaf, outs, compared, carry,
                             tampered>>
         ELSE EvpCall("update", {"ctx"}, ok, {}, {}, "final",
                      {"ctx"}, AESGCMSIV_ERROR_INTERNAL)
    /\ engine_len' = static_cast_int(args.plaintext_len)

\* EVP_EncryptUpdate(ctx, ciphertext_out, &out_len, plaintext,
\*                   static_cast<int>(plaintext_len))
encrypt_update ==
    /\ backend = "openssl" /\ op = "encrypt" /\ pc = "update"
    /\ \E ok \in BOOLEAN :
         EvpCall("update", {"ctx"}, ok, {}, {}, "final",
                 {"ctx"}, AESGCMSIV_ERROR_INTERNAL)
    /\ engine_len' = static_cast_int(args.plaintext_len)

\* EVP_EncryptFinal_ex
encrypt_final ==
    /\ backend = "openssl" /\ op = "encrypt" /\ pc = "final"
    /\ \E ok \in BOOLEAN :
         EvpCall("final", {"ctx"}, ok, {}, {}, "get_tag",
                 {"ctx"}, AESGCMSIV_ERROR_INTERNAL)
    /\ UNCHANGED engine_len

\* EVP_CIPHER_CTX_ctrl(ctx, EVP_CTRL_AEAD_GET_TAG, ...), then
\* EVP_CIPHER_CTX_free(ctx) and return AESGCMSIV_SUCCESS
encrypt_get_tag ==
    /\ backend = "openssl" /\ op = "encrypt" /\ pc = "get_tag"
    /\ \E ok \in BOOLEAN :
         EvpCall("get_tag", {"ctx"}, ok, {}, {"ctx"}, "done",
                 {"ctx"}, AESGCMSIV_ERROR_INTERNAL)
    /\ UNCHANGED engine_len

NextEncrypt ==
    \/ encrypt_call
    \/ encrypt_ctx_new
    \/ encrypt_fetch
    \/ encrypt_init
    \/ encrypt_aad
    \/ encrypt_update
    \/ encrypt_final
    \/ encrypt_get_tag

\* aesgcmsiv_decrypt, entry: validate_decrypt_params and the early return
decrypt_call ==
    /\ pc = "idle"
    /\ \E a \in OpensslDecryptArgs :
         /\ args' = a
         /\ vres' = validate_decrypt_params(a)
         /\ IF validate_decrypt_params(a) # AESGCMSIV_SUCCESS
            THEN pc' = "done" /\ ret' = validate_decrypt_params(a)
            ELSE pc' = "ctx_new" /\ ret' = ret
    /\ backend' = "openssl"
    /\ op' = "decrypt"
    /\ UNCHANGED <<calls, failed, live, acquired, released, uaf, engine_len,
                   outs, compared, carry, tampered>>

\* EVP_CIPHER_CTX_new
decrypt_ctx_new ==
    /\ backend = "openssl" /\ op = "decrypt" /\ pc = "ctx_new"
    /\ \E ok \in BOOLEAN :
         EvpCall("ctx_new", {}, ok, {"ctx"}, {}, "fetch",
                 {}, AESGCMSIV_ERROR_INTERNAL)
    /\ UNCHANGED engine_len

\* EVP_CIPHER_fetch(nullptr, "AES-256-GCM-SIV", nullptr)
decrypt_fetch ==
    /\ backend = "openssl" /\ op = "decrypt" /\ pc = "fetch"
    /\ \E ok \in BOOLEAN :
         EvpCall("fetch", {}, ok, {"cipher"}, {}, "init",
                 {"ctx"}, AESGCMSIV_ERROR_INTERNAL)
    /\ UNCHANGED engine_len

\* EVP_DecryptInit_ex2, then EVP_CIPHER_free(cipher)
decrypt_init ==
    /\ backend = "openssl" /\ op = "decrypt" /\ pc = "init"
    /\ \E ok \in BOOLEAN :
         EvpCall("init", {"ctx", "cipher"}, ok, {}, {"cipher"},
                 IF AadProvided(args) THEN "aad" ELSE "set_tag",
                 {"cipher", "ctx"}, AESGCMSIV_ERROR_INTERNAL)
    /\ UNCHANGED engine_len

\* EVP_DecryptUpdate(ctx, nullptr, &out_len, aad, static_cast<int>(aad_len))
decrypt_aad ==
    /\ backend = "openssl" /\ op = "decrypt" /\ pc = "aad"
    /\ \E ok \in BOOLEAN :
         EvpCall("aad", {"ctx"}, ok, {}, {}, "set_tag",
                 {"ctx"}, AESGCMSIV_ERROR_INTERNAL)
    /\ UNCHANGED engine_len

\* EVP_CIPHER_CTX_ctrl(ctx, EVP_CTRL_AEAD_SET_TAG, AESGCMSIV_TAG_SIZE, tag)
decrypt_set_tag ==
    /\ backend = "openssl" /\ op = "decrypt" /\ pc = "set_tag"
    /\ \E ok \in BOOLEAN :
         EvpCall("set_tag", {"ctx"}, ok, {}, {}, "update",
                 {"ctx"}, AESGCMSIV_ERROR_INVALID_TAG)
    /\ UNCHANGED engine_len

\* EVP_DecryptUpdate(ctx, plaintext_out, &out_len, ciphertext,
\*                   static_cast<int>(ciphertext_len))
decrypt_update ==
    /\ backend = "openssl" /\ op = "decrypt" /\ pc = "update"
    /\ \E ok \in BOOLEAN :
         EvpCall("update", {"ctx"}, ok, {}, {}, "final",
                 {"ctx"}, AESGCMSIV_ERROR_DECRYPT_FAILED)
    /\ engine_len' = static_cast_int(args.ciphertext_len)

\* Faulty variant of decrypt_final: a failed tag verification is reported
\* as AESGCMSIV_ERROR_INVALID_TAG, which tells it apart from a failed
\* transform.
decrypt_final_invalid_tag ==
    /\ backend = "openssl" /\ op = "decrypt" /\ pc = "final"
    /\ \E ok \in BOOLEAN :
         EvpCall("final", {"ctx"}, ok, {}, {"ctx"}, "done",
                 {"ctx"}, AESGCMSIV_ERROR_INVALID_TAG)
    /\ UNCHANGED engine_len

\* EVP_DecryptFinal_ex (the tag is verified here), then
\* EVP_CIPHER_CTX_free(ctx) and return AESGCMSIV_SUCCESS
decrypt_final ==
    /\ backend = "openssl" /\ op = "decrypt" /\ pc = "final"
    /\ \E ok \in BOOLEAN :
         EvpCall("final", {"ctx"}, ok, {}, {"ctx"}, "done",
                 {"ctx"}, AESGCMSIV_ERROR_DECRYPT_FAILED)
    /\ UNCHANGED engine_len

NextDecrypt ==
    \/ decrypt_call
    \/ decrypt_ctx_new
    \/ decrypt_fetch
    \/ decrypt_init
    \/ decrypt_aad
    \/ decrypt_set_tag
    \/ decrypt_update
    \/ decrypt_final

---------------------------------------------------------------------------
(* mock_aesgcmsiv.cpp: the mock backend; a call is one action *)

\* x[i] for a 0-based index i
At(x, i) == x[i + 1]

\* the low byte of a size_t (2^31 and 2^32 are multiples of 256)
LowByte(len) == len.lo % 256

\* `data[i] ^ key[i % 32] ^ nonce[i % 12]` for i < len: both XOR loops
mock_xor(data, len, key, nonce) ==
    [j \in 1..len.lo |->
        Xor8(Xor8(At(data, j - 1), At(key, (j - 1) % 32)),
             At(nonce, (j - 1) % 12))]

\* `(key[i] + nonce[i % 12] + len) & 0xFF` for i < AESGCMSIV_TAG_SIZE
mock_tag(key, nonce, len) ==
    [j \in 1..AESGCMSIV_TAG_SIZE |->
        (At(key, j - 1) + At(nonce, (j - 1) % 12) + LowByte(len)) % 256]

\* the tag verification loop: the 1-based positions where the tag differs
mock_mismatches(tag, expected) ==
    {j \in 1..AESGCMSIV_TAG_SIZE : tag[j] # expected[j]}

\* the number of loop iterations the verification loop runs before it
\* returns: it returns inside the iteration of the first mismatch
mock_compared(tag, expected) ==
    IF mock_mismatches(tag, expected) = {}
    THEN AESGCMSIV_TAG_SIZE
    ELSE Min(mock_mismatches(tag, expected))

\* aesgcmsiv_encrypt of the mock: the value returned and the buffers written
mock_aesgcmsiv_encrypt(a) ==
    IF mock_validate_encrypt(a) # AESGCMSIV_SUCCESS
    THEN [ret |-> mock_validate_encrypt(a), outs |-> NoOuts, compared |-> 0]
    ELSE [ret |-> AESGCMSIV_SUCCESS,
          outs |-> [NoOuts EXCEPT
                      !.ciphertext_out =
                          mock_xor(a.plaintext.bytes, a.plaintext_len,
                                   a.key.bytes, a.nonce.bytes),
                      !.tag_out =
                          mock_tag(a.key.bytes, a.nonce.bytes, a.plaintext_len)],
          compared |-> 0]

\* aesgcmsiv_decrypt of the mock: the value returned, the buffer written
\* (plaintext_out is written before the tag is looked at) and the number of
\* tag bytes compared
mock_aesgcmsiv_decrypt(a) ==
    IF mock_validate_decrypt(a) # AESGCMSIV_SUCCESS
    THEN [ret |-> mock_validate_decrypt(a), outs |-> NoOuts, compared |-> 0]
    ELSE LET expected == mock_tag(a.key.bytes, a.nonce.bytes, a.ciphertext_len)
         IN [ret |-> IF mock_mismatches(a.tag.bytes, expected) = {}
                     THEN AESGCMSIV_SUCCESS
                     ELSE AESGCMSIV_ERROR_DECRYPT_FAILED,
             outs |-> [NoOuts EXCEPT
                         !.plaintext_out =
                             mock_xor(a.ciphertext.bytes, a.ciphertext_len,
                                      a.key.bytes, a.nonce.bytes)],
             compared |-> mock_compared(a.tag.bytes, expected)]

\* what the caller holds after a successful encrypt and hands to decrypt
CarryOf(a, o) ==
    [valid |-> TRUE,
     key |-> a.key, nonce |-> a.nonce,
     aad |-> a.aad, aad_len |-> a.aad_len,
     ciphertext |-> Ptr(o.ciphertext_out), ciphertext_len |-> a.plaintext_len,
     tag |-> Ptr(o.tag_out),
     plaintext |-> a.plaintext.bytes]

\* the decrypt call the caller makes with what it carries
DecryptArgsOf(c) ==
    [key |-> c.key, key_len |-> SZ(AESGCMSIV_KEY_SIZE),
     nonce |-> c.nonce, nonce_len |-> SZ(AESGCMSIV_NONCE_SIZE),
     ciphertext |-> c.ciphertext, ciphertext_len |-> c.ciphertext_len,
     aad |-> c.aad, aad_len |-> c.aad_len,
     tag |-> c.tag, plaintext_out |-> BUF]

UnchangedEngine ==
    UNCHANGED <<calls, failed, live, acquired, released, uaf, engine_len>>

\* a caller calls the mock's aesgcmsiv_encrypt
MockEncrypt ==
    /\ pc = "idle"
    /\ \E k \in KeyPtrs, kl \in KeyLens, n \in NoncePtrs, nl \in NonceLens,
          p \in DataPtrs, ad \in AadPtrs, co \in OutPtrs, tg \in OutPtrs :
         \E pl \in LensFor(p), al \in LensFor(ad) :
           LET a == [key |-> k, key_len |-> kl, nonce |-> n, nonce_len |-> nl,
                     plaintext |-> p, plaintext_len |-> pl,
                     aad |-> ad, aad_len |-> al,
                     ciphertext_out |-> co, tag_out |-> tg]
               r == mock_aesgcmsiv_encrypt(a)
           IN /\ args' = a
              /\ vres' = mock_validate_encrypt(a)
              /\ ret' = r.ret
              /\ outs' = r.outs
              /\ compared' = r.compared
              /\ carry' = IF r.ret = AESGCMSIV_SUCCESS
                          THEN CarryOf(a, r.outs) ELSE NoCarry
    /\ backend' = "mock"
    /\ op' = "encrypt"
    /\ pc' = "done"
    /\ tampered' = "none"
    /\ UnchangedEngine

\* a caller calls the mock's aesgcmsiv_decrypt with arguments of its own
MockDecrypt ==
    /\ pc = "idle"
    /\ \E k \in KeyPtrs, kl \in KeyLens, n \in NoncePtrs, nl \in NonceLens,
          c \in DataPtrs, ad \in AadPtrs, tg \in TagPtrs, po \in OutPtrs :
         \E cl \in LensFor(c), al \in LensFor(ad) :
           LET a == [key |-> k, key_len |-> kl, nonce |-> n, nonce_len |-> nl,
                     ciphertext |-> c, ciphertext_len |-> cl,
                     aad |-> ad, aad_len |-> al,
                     tag |-> tg, plaintext_out |-> po]
               r == mock_aesgcmsiv_decrypt(a)
           IN /\ args' = a
              /\ vres' = mock_validate_decrypt(a)
              /\ ret' = r.ret
              /\ outs' = r.outs
              /\ compared' = r.compared
    /\ backend' = "mock"
    /\ op' = "decrypt"
    /\ pc' = "done"
    /\ UNCHANGED <<carry, tampered>>
    /\ UnchangedEngine

\* the fields carried from encrypt to decrypt that hold bytes
CarriedFields == {"key", "nonce", "aad", "ciphertext", "tag"}

\* between a successful encrypt and the decrypt, one bit of one carried
\* buffer is flipped; lengths stay as they are
Tamper ==
    /\ backend = "mock" /\ op = "encrypt" /\ pc = "done"
    /\ carry.valid
    /\ tampered = "none"
    /\ \E f \in CarriedFields :
         /\ ~carry[f].null
         /\ \E i \in 1..Len(carry[f].bytes), b \in 0..7 :
              carry' = [carry EXCEPT ![f] = Ptr(FlipAt(carry[f].bytes, i, b))]
         /\ tampered' = f
    /\ UNCHANGED <<backend, op, pc, args, ret, vres, outs, compared>>
    /\ UnchangedEngine

\* the caller calls the mock's aesgcmsiv_decrypt with what it carries
MockDecryptCarried ==
    /\ backend = "mock" /\ op = "encrypt" /\ pc = "done"
    /\ carry.valid
    /\ LET a == DecryptArgsOf(carry)
           r == mock_aesgcmsiv_decrypt(a)
       IN /\ args' = a
          /\ vres' = mock_validate_decrypt(a)
          /\ ret' = r.ret
          /\ outs' = r.outs
          /\ compared' = r.compared
    /\ op' = "decrypt"
    /\ UNCHANGED <<backend, pc, carry, tampered>>
    /\ UnchangedEngine

NextMock ==
    \/ MockEncrypt
    \/ MockDecrypt
    \/ Tamper
    \/ MockDecryptCarried

---------------------------------------------------------------------------

Next == NextEncrypt \/ NextDecrypt \/ NextMock

NextOpenssl == NextEncrypt \/ NextDecrypt

NextCalls == NextOpenssl \/ MockEncrypt \/ MockDecrypt

\* every session of either backend
Spec == Init /\ [][Next]_vars

\* the sessions of the OpenSSL backend
SpecOpenssl == Init /\ [][NextOpenssl]_vars

\* single calls of either backend, with arguments of the caller's choice
SpecCalls == Init /\ [][NextCalls]_vars

---------------------------------------------------------------------------
(* Properties *)

Range(q) == {q[i] : i \in 1..Len(q)}

IsPrefix(p, q) == Len(p) <= Len(q) /\ \A i \in 1..Len(p) : p[i] = q[i]

Returned == pc = "done"

KeyMalformed == args.key.null \/ args.key_len # SZ(32)
NonceMalformed == args.nonce.null \/ args.nonce_len # SZ(12)
BufferAbsent ==
    IF op = "encrypt"
    THEN args.plaintext.null \/ args.ciphertext_out.null \/ args.tag_out.null
    ELSE args.ciphertext.null \/ args.tag.null \/ args.plaintext_out.null

\* C1: in both backends encrypt and decrypt check key, then nonce, then the
\* required buffers, and the first failing check decides the value returned:
\* a malformed key gives -1 whatever the rest is, else a malformed nonce
\* gives -2, else an absent required buffer gives -3.
C1_ValidationOrder ==
    Returned =>
        /\ KeyMalformed => ret = -1
        /\ (~KeyMalformed /\ NonceMalformed) => ret = -2
        /\ (~KeyMalformed /\ ~NonceMalformed /\ BufferAbsent) => ret = -3

\* a call with a malformed key and a malformed nonce returned InvalidKey
C1_Witness ==
    /\ Returned
    /\ backend = "openssl"
    /\ op = "encrypt"
    /\ ~args.key.null /\ args.key_len = SZ(16)
    /\ ~args.nonce.null /\ args.nonce_len = SZ(16)
    /\ ret = AESGCMSIV_ERROR_INVALID_KEY

WellFormedCall == ~KeyMalformed /\ ~NonceMalformed /\ ~BufferAbsent

\* C2: round trip on the mock: with a well-formed key, nonce and buffers,
\* and the AAD absent or present with any length, encrypt succeeds, and
\* decrypt of what encrypt produced, unchanged, succeeds and writes the
\* original plaintext.
C2_RoundTrip ==
    (backend = "mock" /\ Returned) =>
        /\ (op = "encrypt" /\ WellFormedCall) => ret = AESGCMSIV_SUCCESS
        /\ (op = "decrypt" /\ carry.valid /\ tampered = "none") =>
              /\ ret = AESGCMSIV_SUCCESS
              /\ outs.plaintext_out = carry.plaintext

\* C3: on the mock, after one bit of the carried ciphertext, tag, AAD, nonce
\* or key was flipped, decrypt returns DecryptFailed (-5).
C3_TamperDetected ==
    (backend = "mock" /\ Returned /\ op = "decrypt" /\ carry.valid
        /\ tampered # "none") => ret = -5

\* the outcome of the mock's call with arguments a
MockOutcome(a) ==
    IF op = "encrypt"
    THEN [ret |-> mock_aesgcmsiv_encrypt(a).ret,
          outs |-> mock_aesgcmsiv_encrypt(a).outs]
    ELSE [ret |-> mock_aesgcmsiv_decrypt(a).ret,
          outs |-> mock_aesgcmsiv_decrypt(a).outs]

OpensslValidation(a) ==
    IF op = "encrypt" THEN validate_encrypt_params(a)
    ELSE validate_decrypt_params(a)

\* C4: in each backend a call with the AAD present and of length 0 has the
\* outcome of the same call with the AAD absent: the same value returned and
\* the same bytes written (OpenSSL backend: the same validation outcome, and
\* no AAD is fed to the engine).
C4_EmptyAadIsAbsentAad ==
    (Returned /\ ~args.aad.null /\ args.aad_len = SZ(0)) =>
        IF backend = "mock"
        THEN [ret |-> ret, outs |-> outs]
                = MockOutcome([args EXCEPT !.aad = NULL])
        ELSE /\ vres = OpensslValidation([args EXCEPT !.aad = NULL])
             /\ "aad" \notin Range(calls)

\* C5: the mock rejects a call during validation exactly when the OpenSSL
\* backend's validation rejects it, and with the same error code.
C5_SameValidation ==
    (backend = "mock" /\ Returned) => vres = OpensslValidation(args)

\* the order of the EVP calls of a decrypt that runs to the end
DecryptOrder ==
    <<"ctx_new", "fetch", "init">>
        \o (IF ~args.aad.null /\ args.aad_len # SZ(0) THEN <<"aad">> ELSE <<>>)
        \o <<"set_tag", "update", "final">>

\* the order of the EVP calls of an encrypt that runs to the end
EncryptOrder ==
    <<"ctx_new", "fetch", "init">>
        \o (IF ~args.aad.null /\ args.aad_len # SZ(0) THEN <<"aad">> ELSE <<>>)
        \o <<"update", "final", "get_tag">>

\* C6: OpenSSL decrypt, after validation passed: the EVP calls are made in
\* the order context, fetch, init, AAD, tag setup, transform, finalization;
\* the first that fails ends the call and decides the value returned: tag
\* setup gives InvalidTag (-4), transform and finalization both give
\* DecryptFailed (-5), an earlier one gives Internal (-6); success is
\* returned exactly when every call succeeded; -1, -2, -3 are not returned.
C6_DecryptFailureMapping ==
    (backend = "openssl" /\ op = "decrypt" /\ Returned /\ vres = 0) =>
        /\ IsPrefix(calls, DecryptOrder)
        /\ failed # "none" => calls[Len(calls)] = failed
        /\ failed = "set_tag" => ret = -4
        /\ failed \in {"update", "final"} => ret = -5
        /\ failed \in {"ctx_new", "fetch", "init", "aad"} => ret = -6
        /\ (ret = 0) <=> (failed = "none")
        /\ ret = 0 => calls = DecryptOrder
        /\ ret \notin {-1, -2, -3}

\* a decrypt whose finalization (tag verification) failed has returned
C6_Witness ==
    /\ backend = "openssl" /\ op = "decrypt" /\ Returned
    /\ failed = "final"
    /\ ret = AESGCMSIV_ERROR_DECRYPT_FAILED

\* C7: OpenSSL encrypt, after validation passed: the EVP calls are made in
\* order, each at most once; a failing call ends the function at once with
\* Internal (-6), no call is made after it, and success is returned exactly
\* when every call succeeded.
C7_EncryptFailureIsInternal ==
    (backend = "openssl" /\ op = "encrypt" /\ vres = 0) =>
        /\ IsPrefix(calls, EncryptOrder)
        /\ failed # "none" => (Returned /\ calls[Len(calls)] = failed)
        /\ Returned =>
              /\ failed # "none" => ret = -6
              /\ (ret = 0) <=> (failed = "none")
              /\ ret = 0 => calls = EncryptOrder

\* an encrypt whose plaintext transform failed has returned
C7_Witness ==
    /\ backend = "openssl" /\ op = "encrypt" /\ Returned
    /\ failed = "update"
    /\ calls[Len(calls)] = "update"
    /\ ret = AESGCMSIV_ERROR_INTERNAL

\* the caller's length of the data buffer
DataLen == IF op = "encrypt" THEN args.plaintext_len ELSE args.ciphertext_len

\* the size_t len has the value of the int n
SameLength(len, n) == len.hi = 0 /\ len.b31 = 0 /\ len.lo = n

\* C8: for every length of the size_t range the call processes exactly that
\* many bytes: the length the OpenSSL backend hands to the engine's update
\* call is the caller's length, and a successful call of the mock writes
\* that many bytes.
C8_LengthPreserved ==
    /\ (backend = "openssl" /\ "update" \in Range(calls)) =>
          SameLength(DataLen, engine_len)
    /\ (backend = "mock" /\ Returned /\ ret = 0) =>
          IF op = "encrypt"
          THEN SameLength(DataLen, Len(outs.ciphertext_out))
          ELSE SameLength(DataLen, Len(outs.plaintext_out))

\* C9: OpenSSL backend: no handle is handed to an EVP call unless it is
\* live, no handle is freed more often than it was acquired, and when the
\* call has returned no handle is live and each acquired handle was freed
\* exactly once.
C9_HandlesReleasedOnce ==
    backend = "openssl" =>
        /\ ~uaf
        /\ \A h \in Handles :
              /\ acquired[h] <= 1
              /\ released[h] <= acquired[h]
              /\ (h \in live) <=> (released[h] < acquired[h])
        /\ Returned =>
              /\ live = {}
              /\ \A h \in Handles : released[h] = acquired[h]

\* a call that failed in init, holding both handles, has returned
C9_Witness ==
    /\ backend = "openssl" /\ Returned
    /\ failed = "init"
    /\ \A h \in Handles : acquired[h] = 1 /\ released[h] = 1
    /\ live = {}

\* C10: the mock's tag verification compares all 16 tag bytes before decrypt
\* returns, wherever the first mismatching byte is.
C10_AllTagBytesCompared ==
    (backend = "mock" /\ op = "decrypt" /\ Returned /\ vres = 0) =>
        compared = 16

====
